---- MODULE Spec2Model ----
(***************************************************************************)
(* FoodatHome (src/src/App.js): the menu publication and synchronisation   *)
(* workflow of the chef dashboard and the menu editor over the document    *)
(* store.                                                                  *)
(*                                                                         *)
(* Conventions.  A JavaScript string is a tuple of one-character strings.  *)
(* A value that may be null/undefined is a tuple of length 0 (absent) or 1 *)
(* (present).  An awaited store call takes effect and resumes its caller   *)
(* in one step; a call that is not awaited takes effect in a later step of *)
(* its own.  A React state change, the render and the effects it triggers  *)
(* form one step.                                                          *)
(***************************************************************************)
EXTENDS Integers, Sequences, FiniteSets, TLC

VARIABLES
    \* document store
    menusCol, publishedCol, ordersCol, pendingDeletes, listeners,
    \* environment: clock and the store's id generator
    now, nextMenuId, nextOrderId,
    \* FirebaseProvider
    db, userId, isAuthReady,
    \* App
    hash, hashQueued, page, currentMenuId, currentMenuCodeForFamily,
    \* HomePage
    homeMessage,
    \* ChefDashboard
    menus, newMenuName, selectedMenu, orders, modalMessage, showConfirmModal,
    menuToDelete,
    \* MenuCreator
    menu,
    \* asynchronous calls in flight, and the last event
    tasks, ev,
    \* harness of publishMenu called on its own
    pub

storeVars == <<menusCol, publishedCol, ordersCol, pendingDeletes, listeners>>
envVars   == <<now, nextMenuId, nextOrderId>>
fbVars    == <<db, userId, isAuthReady>>
appVars   == <<hash, hashQueued, page, currentMenuId, currentMenuCodeForFamily,
               homeMessage>>
dashVars  == <<menus, newMenuName, selectedMenu, orders, modalMessage,
               showConfirmModal, menuToDelete>>
vars == <<storeVars, envVars, fbVars, appVars, dashVars, menu, tasks, ev, pub>>

-----------------------------------------------------------------------------
(* Bounds *)

MaxClock  == 1      \* clock readings 0..MaxClock
MaxRounds == 2      \* rounds of the publishMenu harness

\* per scenario: the menu ids and order ids the store hands out, and the
\* asynchronous calls in flight at once
AppMenus == 1
AppOrders == 1
AppTasks == 1
CreateMenus == 2
CreateTasks == 2
ListMenus == 2
ListTasks == 1
DeleteMenus == 1
DeleteOrders == 2
DeleteTasks == 2
EditMenus == 1
EditTasks == 2

-----------------------------------------------------------------------------
(* Optional values *)

None == <<>>
Some(v) == <<v>>
IsSome(o) == o # <<>>
Get(o) == o[1]

Min(a, b) == IF a <= b THEN a ELSE b
Max(a, b) == IF a >= b THEN a ELSE b

-----------------------------------------------------------------------------
(* Strings *)

Digit36 == <<"0","1","2","3","4","5","6","7","8","9","a","b","c","d","e","f",
             "g","h","i","j","k","l","m","n","o","p","q","r","s","t","u","v",
             "w","x","y","z">>
Upper36 == <<"0","1","2","3","4","5","6","7","8","9","A","B","C","D","E","F",
             "G","H","I","J","K","L","M","N","O","P","Q","R","S","T","U","V",
             "W","X","Y","Z">>

\* String.prototype.toUpperCase on one character
UpperChar(c) ==
    IF \E i \in 1..36 : Digit36[i] = c
    THEN Upper36[CHOOSE i \in 1..36 : Digit36[i] = c]
    ELSE c

ToUpperCase(s) == [i \in 1..Len(s) |-> UpperChar(s[i])]

\* String.prototype.substring(start, end): 0-based, end exclusive, clamped
Substring(s, start, end) ==
    LET a == Min(Max(start, 0), Len(s))
        b == Min(Max(end, 0), Len(s))
    IN  SubSeq(s, Min(a, b) + 1, Max(a, b))

IsSpace(c) == c \in {" ", "\t", "\n"}

RECURSIVE TrimStart(_)
TrimStart(s) ==
    IF s # <<>> /\ IsSpace(Head(s)) THEN TrimStart(Tail(s)) ELSE s

RECURSIVE TrimEnd(_)
TrimEnd(s) ==
    IF s # <<>> /\ IsSpace(s[Len(s)]) THEN TrimEnd(SubSeq(s, 1, Len(s) - 1)) ELSE s

\* String.prototype.trim
Trim(s) == TrimEnd(TrimStart(s))

-----------------------------------------------------------------------------
(* generateCode: Math.random().toString(36).substring(2, 8).toUpperCase()   *)
(* A random number in [0,1) is given by the fractional digits of its        *)
(* base-36 rendering: none for 0, otherwise at least one and no trailing 0. *)

\* Number.prototype.toString(36) of a number in [0,1)
ToString36(r) ==
    IF r = <<>> THEN <<"0">>
    ELSE <<"0", ".">> \o [i \in 1..Len(r) |-> Digit36[r[i] + 1]]

generateCode(r) == ToUpperCase(Substring(ToString36(r), 2, 8))

\* values Math.random() returns: 0, 0.5 and one with a long rendering
\* ("0", "0.i", "0.abc1234")
RandomZero == <<>>
RandomHalf == <<18>>
RandomLong == <<10, 11, 12, 1, 2, 3, 4>>
RandomSource == {RandomZero, RandomHalf, RandomLong}

\* the value drawn for the id of the default category
CategoryRandomSource == {<<18>>}

-----------------------------------------------------------------------------
(* Document store interface (firebase/firestore): a collection is a set of  *)
(* documents, each with its key.                                           *)

\* getDoc(ref): a tuple holding the document, empty when it does not exist
GetDoc(col, key) == IF \E d \in col : d.key = key
                    THEN Some(CHOOSE d \in col : d.key = key)
                    ELSE None

DocExists(col, key) == \E d \in col : d.key = key

\* setDoc(ref, data): upsert, full replace
SetDoc(col, key, data) == {d \in col : d.key # key} \cup {data}

\* deleteDoc(ref)
DeleteDoc(col, key) == {d \in col : d.key # key}

\* updateDoc(ref, updates): merges the given fields into an existing document
ApplyUpdates(d, updates) ==
    [f \in DOMAIN d |-> IF f \in DOMAIN updates THEN updates[f] ELSE d[f]]

UpdateDoc(col, key, updates) ==
    {IF d.key = key THEN ApplyUpdates(d, updates) ELSE d : d \in col}

\* doc(db, path, segment) rejects an empty segment
ValidSegment(code) == code # <<>>

-----------------------------------------------------------------------------
(* publishMenu *)

\* JavaScript truthiness of an optional string
Truthy(o) == IsSome(o) /\ Get(o) # <<>>

\* mutant: the guard forgets chefId
PublishGuardNoChef(dbv, menuData, chefId, menuIdOriginal) ==
    /\ dbv
    /\ IsSome(menuData)
    /\ Truthy(Get(menuData).code)
    /\ IsSome(menuIdOriginal)

\* the guard of publishMenu: TRUE when the call goes on to write
PublishGuard(dbv, menuData, chefId, menuIdOriginal) ==
    /\ dbv
    /\ IsSome(menuData)
    /\ Truthy(Get(menuData).code)
    /\ IsSome(chefId)
    /\ IsSome(menuIdOriginal)

\* mutant: the published document is built without the items
MenuToPublishNoItems(md, chefId, menuIdOriginal, at) ==
    [key             |-> Get(md.code),
     name            |-> md.name,
     code            |-> Get(md.code),
     items           |-> <<"none">>,
     categories      |-> IF IsSome(md.categories) THEN Get(md.categories) ELSE <<>>,
     chefId          |-> chefId,
     menuId_original |-> menuIdOriginal,
     updatedAt       |-> at]

\* the document publishMenu builds; (x || []) defaults a missing list
MenuToPublish(md, chefId, menuIdOriginal, at) ==
    [key             |-> Get(md.code),
     name            |-> md.name,
     code            |-> Get(md.code),
     items           |-> IF IsSome(md.items) THEN Get(md.items) ELSE <<>>,
     categories      |-> IF IsSome(md.categories) THEN Get(md.categories) ELSE <<>>,
     chefId          |-> chefId,
     menuId_original |-> menuIdOriginal,
     updatedAt       |-> at]

\* setDoc rejects a document with an undefined field
Writable(docu) == IsSome(docu.name)

\* await setDoc(publishedMenuRef, menuToPublish), answered with storeOk; a
\* failure is caught and logged
PublishWrite(col, docu, storeOk) ==
    IF storeOk /\ Writable(docu) THEN SetDoc(col, docu.key, docu) ELSE col

\* mutant: the document is added under a fresh key instead of set under its code
PublishMenuAdd(col, dbv, menuData, chefId, menuIdOriginal, at, storeOk) ==
    IF ~PublishGuard(dbv, menuData, chefId, menuIdOriginal) THEN col
    ELSE LET docu == MenuToPublish(Get(menuData), chefId, menuIdOriginal, at)
         IN  IF storeOk /\ Writable(docu) THEN col \cup {docu} ELSE col

\* published_menus after one call of publishMenu whose setDoc is answered
\* with storeOk
PublishMenu(col, dbv, menuData, chefId, menuIdOriginal, at, storeOk) ==
    IF ~PublishGuard(dbv, menuData, chefId, menuIdOriginal) THEN col
    ELSE LET docu == MenuToPublish(Get(menuData), chefId, menuIdOriginal, at)
         IN  PublishWrite(col, docu, storeOk)

\* a menu document as publishMenu's menuData
AsMenuData(m) ==
    Some([name |-> Some(m.name), code |-> Some(m.code), items |-> Some(m.items),
          categories |-> Some(m.categories)])

-----------------------------------------------------------------------------
(* Documents and their local copies *)

Chef == "chef1"

\* the private menu document createNewMenu builds, under users/<owner>/menus/<id>
PrivateMenuData(owner, id, name, code, catRandom, at) ==
    [key        |-> <<owner, id>>,
     name       |-> name,
     code       |-> code,
     items      |-> <<>>,
     categories |-> <<[id   |-> <<"c", "a", "t", "-">> \o generateCode(catRandom),
                       name |-> "Boissons"]>>,
     createdAt  |-> at,
     chefId     |-> owner]

\* { id: doc.id, ...doc.data() } of a menu document
LocalMenu(d) ==
    [id |-> d.key[2], name |-> d.name, code |-> d.code, items |-> d.items,
     categories |-> d.categories, createdAt |-> d.createdAt, chefId |-> d.chefId]

\* { id: doc.id, ...doc.data() } of an order document
LocalOrder(d) == [id |-> d.key, menuCode |-> d.menuCode]

\* the documents of a query result as a list, in key order
RECURSIVE DocList(_)
DocList(docs) ==
    IF docs = {} THEN <<>>
    ELSE LET first == CHOOSE d \in docs : \A e \in docs : d.id <= e.id
         IN  <<first>> \o DocList(docs \ {first})

\* snapshot.docs.map(...) of the collection users/<owner>/menus
MenusSnapshot(mc, owner) ==
    DocList({LocalMenu(d) : d \in {x \in mc : x.key[1] = owner}})

\* query(orders, where("menuCode", "==", code))
OrdersQuery(oc, code) == {d \in oc : d.menuCode = code}

\* snapshot.docs.map(...) of the orders query
OrdersSnapshot(oc, code) ==
    DocList({LocalOrder(d) : d \in OrdersQuery(oc, code)})

Range(f) == {f[i] : i \in DOMAIN f}

-----------------------------------------------------------------------------
(* Location hash: the list of the <<key, value>> pairs between its "&"s.   *)
(* A value is <<>> for the empty string ("menuId=") and <<v>> otherwise.    *)

\* the hash handleSetPage writes
FormatHash(newPage, menuId, menuCode) ==
    <<<<"page", <<newPage>>>>>>
    \o (IF IsSome(menuId) THEN <<<<"menuId", <<Get(menuId)>>>>>> ELSE <<>>)
    \o (IF Truthy(menuCode) THEN <<<<"code", <<Get(menuCode)>>>>>> ELSE <<>>)

\* URLSearchParams.get(key): the first value under the key, or null
HashGet(h, k) ==
    IF \E i \in 1..Len(h) : h[i][1] = k
    THEN Some(h[CHOOSE i \in 1..Len(h) : h[i][1] = k /\ \A j \in 1..(i-1) : h[j][1] # k][2])
    ELSE None

\* hashParams.get(key) || null: the empty string counts as absent
OrNull(v) == IF IsSome(v) /\ Get(v) # <<>> THEN Some(Get(v)[1]) ELSE None

\* hashParams.get('page') || 'home'
ParsePage(h) ==
    LET v == OrNull(HashGet(h, "page")) IN IF IsSome(v) THEN Get(v) ELSE "home"

\* the component renderPage picks
Rendered(p) ==
    IF p \in {"home", "chefDashboard", "menuCreator", "familyOrder"} THEN p ELSE "home"

-----------------------------------------------------------------------------
(* Subscriptions.  A listener is registered with the store by onSnapshot    *)
(* and removed by the function onSnapshot returns; the store delivers to a  *)
(* registered listener first on registration and then after every change   *)
(* of its result.                                                          *)

Listener(kind, owner, sel, code, id) ==
    [kind |-> kind, owner |-> owner, sel |-> sel, code |-> code, id |-> id,
     dirty |-> TRUE]

\* what a listener watches
Result(l, mc, oc) ==
    CASE l.kind = "menus"   -> {d \in mc : d.key[1] = l.owner}
      [] l.kind = "orders"  -> OrdersQuery(oc, l.code)
      [] l.kind = "menuDoc" -> {d \in mc : d.key = <<l.owner, l.id>>}

\* the store marks the listeners whose result a write has changed
Notify(ls, mc, mcNew, oc, ocNew) ==
    {IF Result(l, mc, oc) # Result(l, mcNew, ocNew) THEN [l EXCEPT !.dirty = TRUE] ELSE l
        : l \in ls}

\* what the effects of the mounted page depend on
Deps(p, d, u, r, s, m) ==
    [page |-> Rendered(p), db |-> d, userId |-> u, ready |-> r, sel |-> s, menuId |-> m]

MenusDeps(x)   == <<x.page = "chefDashboard", x.db, x.userId, x.ready, x.sel>>
OrdersDeps(x)  == <<x.page = "chefDashboard", x.db, x.sel>>
CreatorDeps(x) == <<x.page = "menuCreator", x.db, x.userId, x.ready, x.menuId>>

\* mutant: the effect returns no cleanup
UnsubscribeNever(ls, kind) == ls

\* the cleanup of an effect: the unsubscribe function onSnapshot returned
Unsubscribe(ls, kind) == {l \in ls : l.kind # kind}

\* ChefDashboard's first effect
MenusEffect(ls, old, new) ==
    IF MenusDeps(old) = MenusDeps(new) THEN ls
    ELSE LET rest == Unsubscribe(ls, "menus") IN
         IF new.page = "chefDashboard" /\ new.ready /\ new.db /\ IsSome(new.userId)
         THEN rest \cup {Listener("menus", Get(new.userId), new.sel, <<>>, 0)}
         ELSE rest

\* selectedMenu?.code is truthy
HasCode(sel) == IsSome(sel) /\ Get(sel).code # <<>>

\* ChefDashboard's second effect: the subscription
OrdersEffect(ls, old, new) ==
    IF OrdersDeps(old) = OrdersDeps(new) THEN ls
    ELSE LET rest == Unsubscribe(ls, "orders") IN
         IF new.page = "chefDashboard" /\ new.db /\ HasCode(new.sel)
         THEN rest \cup {Listener("orders", "", None, Get(new.sel).code, 0)}
         ELSE rest

\* ChefDashboard's second effect: setOrders([]) when nothing is selected
OrdersAfterEffect(os, old, new) ==
    IF OrdersDeps(old) # OrdersDeps(new) /\ new.page = "chefDashboard"
       /\ ~(new.db /\ HasCode(new.sel))
    THEN <<>> ELSE os

\* MenuCreator's effect
CreatorEffect(ls, old, new) ==
    IF CreatorDeps(old) = CreatorDeps(new) THEN ls
    ELSE LET rest == Unsubscribe(ls, "menuDoc") IN
         IF new.page = "menuCreator" /\ new.ready /\ new.db /\ IsSome(new.userId)
            /\ IsSome(new.menuId)
         THEN rest \cup {Listener("menuDoc", Get(new.userId), None, <<>>, Get(new.menuId))}
         ELSE rest

RunEffects(ls, old, new) ==
    CreatorEffect(OrdersEffect(MenusEffect(ls, old, new), old, new), old, new)

DepsNow == Deps(page, db, userId, isAuthReady, selectedMenu, currentMenuId)

\* the listeners ls after a step that leaves the store with mcNew and ocNew
\* and the page with the dependencies depsNew
ListenersAfter(ls, mcNew, ocNew, depsNew) ==
    RunEffects(Notify(ls, menusCol, mcNew, ordersCol, ocNew), DepsNow, depsNew)

NextListeners(mcNew, ocNew, depsNew) == ListenersAfter(listeners, mcNew, ocNew, depsNew)

-----------------------------------------------------------------------------
(* Initial state: the page has loaded with an empty location hash, nothing  *)
(* is stored and nothing is persisted.                                     *)

Event(op) == [op |-> op, ok |-> TRUE, id |-> 0, code |-> <<>>, ids |-> {},
              name |-> None, doc |-> None, list |-> None, step |-> "",
              updates |-> None]

NoPub == [args |-> None, round |-> 0, calls |-> 0, oks |-> <<>>, before |-> {},
          first |-> {}]

Init ==
    /\ menusCol = {} /\ publishedCol = {} /\ ordersCol = {}
    /\ pendingDeletes = {} /\ listeners = {}
    /\ now = 0 /\ nextMenuId = 1 /\ nextOrderId = 1
    \* FirebaseProvider's effect: with an empty configuration no database is
    \* opened and authentication counts as ready
    /\ db \in BOOLEAN /\ userId = None /\ isAuthReady = ~db
    /\ hash = <<>> /\ hashQueued = FALSE /\ page = "home"
    /\ homeMessage = <<>>
    /\ currentMenuId = None /\ currentMenuCodeForFamily = None
    /\ menus = <<>> /\ newMenuName = <<>> /\ selectedMenu = None
    /\ orders = <<>> /\ modalMessage = <<>> /\ showConfirmModal = FALSE
    /\ menuToDelete = None
    /\ menu = None
    /\ tasks = {} /\ ev = Event("step")
    /\ pub = NoPub

\* new Date() advances
Tick ==
    /\ now < MaxClock
    /\ now' = now + 1
    /\ UNCHANGED <<storeVars, nextMenuId, nextOrderId, fbVars, appVars, dashVars,
                   menu, tasks, ev, pub>>

-----------------------------------------------------------------------------
(* FirebaseProvider and App *)

\* the callback of onAuthStateChanged: first without a user, then, once the
\* sign-in has succeeded, with the user
AuthStateChanged ==
    /\ db
    /\ \E user \in {None, Some(Chef)} :
          /\ ~isAuthReady \/ (userId = None /\ IsSome(user))
          /\ userId' = user
    /\ isAuthReady' = TRUE
    /\ listeners' = NextListeners(menusCol, ordersCol,
                        Deps(page, db, userId', TRUE, selectedMenu, currentMenuId))
    /\ ev' = Event("step")
    /\ UNCHANGED <<menusCol, publishedCol, ordersCol, pendingDeletes, envVars, db,
                   appVars, dashVars, menu, tasks, pub>>

\* mutant: the page state is set along with the hash
HandleSetPageDirect(newPage, menuId, menuCode) ==
    /\ hash' = FormatHash(newPage, menuId, menuCode)
    /\ hashQueued' = (hashQueued \/ hash' # hash)
    /\ page' = newPage
    /\ UNCHANGED <<currentMenuId, currentMenuCodeForFamily, homeMessage>>

\* handleSetPage: writes the hash; the browser queues a hashchange event when
\* the hash has changed
HandleSetPage(newPage, menuId, menuCode) ==
    /\ hash' = FormatHash(newPage, menuId, menuCode)
    /\ hashQueued' = (hashQueued \/ hash' # hash)
    /\ UNCHANGED <<page, currentMenuId, currentMenuCodeForFamily, homeMessage>>

\* HomePage: "Acceder au Tableau de Bord"
GoDashboard ==
    /\ Rendered(page) = "home"
    /\ HandleSetPage("chefDashboard", None, None)
    /\ ev' = Event("step")
    /\ UNCHANGED <<storeVars, envVars, fbVars, dashVars, menu, tasks, pub>>

\* HomePage: "Commander" (handleFamilyAccess)
MsgCodeRequired == <<"Veuillez entrer un code de menu.">>
CodeInputs == {<<>>, <<" ">>, <<"i">>}

FamilyAccess ==
    /\ Rendered(page) = "home"
    /\ \E code \in CodeInputs :
          IF Trim(code) = <<>>
          THEN /\ homeMessage' = MsgCodeRequired
               /\ UNCHANGED <<hash, hashQueued, page, currentMenuId,
                              currentMenuCodeForFamily>>
          ELSE HandleSetPage("familyOrder", None, Some(ToUpperCase(Trim(code))))
    /\ ev' = Event("step")
    /\ UNCHANGED <<storeVars, envVars, fbVars, dashVars, menu, tasks, pub>>

\* the user edits the location hash; the browser queues a hashchange event
\* when the hash has changed
HashInputs ==
    {<<>>,
     <<<<"page", <<"nowhere">>>>>>,
     <<<<"page", <<>>>>, <<"menuId", <<>>>>, <<"code", <<>>>>>>,
     <<<<"menuId", <<1>>>>, <<"code", <<<<"I">>>>>>>>,
     <<<<"page", <<"menuCreator">>>>, <<"menuId", <<1>>>>>>,
     <<<<"page", <<"chefDashboard">>>>, <<"page", <<"home">>>>>>}

EditHash ==
    /\ \E h \in HashInputs : h # hash /\ hash' = h
    /\ hashQueued' = TRUE
    /\ ev' = Event("step")
    /\ UNCHANGED <<page, currentMenuId, currentMenuCodeForFamily, homeMessage>>
    /\ UNCHANGED <<storeVars, envVars, fbVars, dashVars, menu, tasks, pub>>

\* ChefDashboard, MenuCreator and FamilyOrderPage: "Retour"
GoBack ==
    /\ Rendered(page) \in {"chefDashboard", "menuCreator", "familyOrder"}
    /\ HandleSetPage(IF Rendered(page) = "menuCreator" THEN "chefDashboard" ELSE "home",
                     None, None)
    /\ ev' = Event("step")
    /\ UNCHANGED <<storeVars, envVars, fbVars, dashVars, menu, tasks, pub>>

\* ChefDashboard: a menu of the list is opened in the editor
OpenMenuCreator ==
    /\ Rendered(page) = "chefDashboard"
    /\ \E m \in Range(menus) : HandleSetPage("menuCreator", Some(m.id), None)
    /\ ev' = Event("step")
    /\ UNCHANGED <<storeVars, envVars, fbVars, dashVars, menu, tasks, pub>>

\* the tasks of a page that has been torn down can no longer set its state
Orphaned(ts, old, new) ==
    {IF \/ (old = "chefDashboard" /\ new # old /\ t.kind \in {"create", "delete"})
        \/ (old = "menuCreator" /\ new # old /\ t.kind = "update")
     THEN [t EXCEPT !.live = FALSE] ELSE t : t \in ts}

\* handleHashChange: the page state follows the hash; the page that is left is
\* torn down with its local state, the page that is entered is set up
HandleHashChange ==
    /\ hashQueued
    /\ hashQueued' = FALSE
    /\ page' = ParsePage(hash)
    /\ currentMenuId' = OrNull(HashGet(hash, "menuId"))
    /\ currentMenuCodeForFamily' = OrNull(HashGet(hash, "code"))
    /\ homeMessage' = (IF Rendered(page) = "home" /\ Rendered(page') # "home"
                       THEN <<>> ELSE homeMessage)
    /\ UNCHANGED hash
    /\ LET old == Rendered(page)
           new == Rendered(page')
           depsNew == Deps(page', db, userId, isAuthReady, selectedMenu, currentMenuId')
       IN  /\ IF old = "chefDashboard" /\ new # old
              THEN /\ menus' = <<>> /\ orders' = <<>> /\ modalMessage' = <<>>
                   /\ showConfirmModal' = FALSE /\ menuToDelete' = None
              ELSE /\ orders' = OrdersAfterEffect(orders, DepsNow, depsNew)
                   /\ UNCHANGED <<menus, modalMessage, showConfirmModal, menuToDelete>>
           /\ menu' = (IF old = "menuCreator" /\ new # old THEN None ELSE menu)
           /\ tasks' = Orphaned(tasks, old, new)
           /\ listeners' = NextListeners(menusCol, ordersCol, depsNew)
    /\ ev' = Event("step")
    /\ UNCHANGED <<menusCol, publishedCol, ordersCol, pendingDeletes, envVars, fbVars,
                   newMenuName, selectedMenu, pub>>

-----------------------------------------------------------------------------
(* ChefDashboard *)

MsgNameRequired == <<"Veuillez nommer votre menu.">>
MsgCreated(name, code) == <<"created", name, code>>

Task(kind, pc, chef, id, data, sel, updates) ==
    [kind |-> kind, pc |-> pc, chef |-> chef, live |-> TRUE, id |-> id, data |-> data,
     sel |-> sel, updates |-> updates, payload |-> None]

\* the name input of the dashboard
SetNewMenuName(sc) ==
    /\ Rendered(page) = "chefDashboard"
    /\ \E n \in sc.names : n # newMenuName /\ newMenuName' = n
    /\ ev' = Event("step")
    /\ UNCHANGED <<storeVars, envVars, fbVars, appVars, menus, selectedMenu, orders,
                   modalMessage, showConfirmModal, menuToDelete, menu, tasks, pub>>

\* mutant: the name is compared without trimming
NameIsBlankNoTrim(name) == name = <<>>

\* newMenuName.trim() === ''
NameIsBlank(name) == Trim(name) = <<>>

\* createNewMenu up to its first await
CreateNewMenu(sc) ==
    /\ Rendered(page) = "chefDashboard"
    /\ ev' = [Event("createNewMenu") EXCEPT !.name = Some(newMenuName)]
    /\ IF ~db \/ userId = None
       THEN UNCHANGED <<modalMessage, tasks, nextMenuId>>
       ELSE IF NameIsBlank(newMenuName)
       THEN /\ modalMessage' = MsgNameRequired
            /\ UNCHANGED <<tasks, nextMenuId>>
       ELSE /\ nextMenuId <= sc.menus
            /\ Cardinality(tasks) < sc.tasks
            /\ \E r1 \in sc.randoms, r2 \in CategoryRandomSource :
                  tasks' = tasks \cup
                     {Task("create", "setDoc", Get(userId), nextMenuId,
                           Some(PrivateMenuData(Get(userId), nextMenuId, newMenuName,
                                                generateCode(r1), r2, now)),
                           None, None)}
            /\ nextMenuId' = nextMenuId + 1
            /\ UNCHANGED modalMessage
    /\ UNCHANGED <<storeVars, now, nextOrderId, fbVars, appVars, menus, newMenuName,
                   selectedMenu, orders, showConfirmModal, menuToDelete, menu, pub>>

\* mutant: a rejected call is ignored and the next statement runs
ProceedsAlways(ok, valid) == valid

\* the try block of a handler goes on to its next store call: the awaited
\* call was accepted and the statements up to the next call neither threw
\* nor returned
Proceeds(ok, valid) == ok /\ valid

\* mutant: a failed publication ends createNewMenu like a failed private write
CreateFinishNothing(t) == UNCHANGED <<newMenuName, modalMessage>>

\* what createNewMenu does after publishMenu has returned
CreateFinish(t) ==
    IF t.live
    THEN /\ newMenuName' = <<>>
         /\ modalMessage' = MsgCreated(Get(t.data).name, Get(t.data).code)
    ELSE UNCHANGED <<newMenuName, modalMessage>>

\* createNewMenu: the private setDoc is answered; on success publishMenu runs
\* up to its setDoc, or returns at its guard
CreateSetDoc(sc) ==
    \E t \in tasks, ok \in sc.oks :
    /\ t.kind = "create" /\ t.pc = "setDoc"
    /\ LET d == Get(t.data)
           guard == PublishGuard(TRUE, AsMenuData(d), Some(t.chef), Some(t.id))
       IN  /\ menusCol' = (IF ok THEN SetDoc(menusCol, d.key, d) ELSE menusCol)
           /\ IF Proceeds(ok, guard)
              THEN /\ tasks' = (tasks \ {t}) \cup
                        {[t EXCEPT !.pc = "publish",
                                   !.payload = Some(MenuToPublish(Get(AsMenuData(d)),
                                                      Some(t.chef), Some(t.id), now))]}
                   /\ UNCHANGED <<newMenuName, modalMessage>>
                   /\ ev' = [Event("createNewMenu.setDoc") EXCEPT !.id = t.id]
              ELSE /\ tasks' = tasks \ {t}
                   /\ IF ok THEN CreateFinish(t) ELSE UNCHANGED <<newMenuName, modalMessage>>
                   /\ ev' = [Event("createNewMenu.done") EXCEPT
                               !.ok = FALSE, !.id = t.id, !.code = d.code, !.doc = t.data]
           /\ listeners' = NextListeners(menusCol', ordersCol, DepsNow)
    /\ UNCHANGED <<publishedCol, ordersCol, pendingDeletes, envVars, fbVars, appVars,
                   menus, selectedMenu, orders, showConfirmModal, menuToDelete, menu, pub>>

\* createNewMenu: publishMenu's setDoc is answered; a failure is caught inside
\* publishMenu, and createNewMenu finishes either way
CreatePublish(sc) ==
    \E t \in tasks, ok \in sc.oks :
    /\ t.kind = "create" /\ t.pc = "publish"
    /\ publishedCol' = PublishWrite(publishedCol, Get(t.payload), ok)
    /\ tasks' = tasks \ {t}
    /\ CreateFinish(t)
    /\ ev' = [Event("createNewMenu.done") EXCEPT
                !.ok = ok, !.id = t.id, !.code = Get(t.data).code, !.doc = t.data]
    /\ UNCHANGED <<menusCol, ordersCol, pendingDeletes, listeners, envVars, fbVars,
                   appVars, menus, selectedMenu, orders, showConfirmModal, menuToDelete,
                   menu, pub>>

\* a menu of the list is selected
SelectMenu ==
    /\ Rendered(page) = "chefDashboard"
    /\ \E m \in Range(menus) : Some(m) # selectedMenu /\ selectedMenu' = Some(m)
    /\ LET depsNew == Deps(page, db, userId, isAuthReady, selectedMenu', currentMenuId)
       IN  /\ listeners' = NextListeners(menusCol, ordersCol, depsNew)
           /\ orders' = OrdersAfterEffect(orders, DepsNow, depsNew)
    /\ ev' = Event("step")
    /\ UNCHANGED <<menusCol, publishedCol, ordersCol, pendingDeletes, envVars, fbVars,
                   appVars, menus, newMenuName, modalMessage, showConfirmModal,
                   menuToDelete, menu, tasks, pub>>

\* handleDeleteMenu
HandleDeleteMenu ==
    /\ Rendered(page) = "chefDashboard"
    /\ \E m \in Range(menus) : menuToDelete' = Some(m)
    /\ showConfirmModal' = TRUE
    /\ ev' = Event("step")
    /\ UNCHANGED <<storeVars, envVars, fbVars, appVars, menus, newMenuName, selectedMenu,
                   orders, modalMessage, menu, tasks, pub>>

\* confirmDeleteMenu up to its first await
ConfirmDeleteMenu(sc) ==
    /\ Rendered(page) = "chefDashboard"
    /\ showConfirmModal
    /\ IF ~db \/ userId = None \/ menuToDelete = None
       THEN UNCHANGED tasks
       ELSE /\ Cardinality(tasks) < sc.tasks
            /\ tasks' = tasks \cup
                  {Task("delete", "deletePrivate", Get(userId), Get(menuToDelete).id,
                        menuToDelete, selectedMenu, None)}
    /\ ev' = Event("step")
    /\ UNCHANGED <<storeVars, envVars, fbVars, appVars, dashVars, menu, pub>>

\* the finally block of confirmDeleteMenu
DeleteFinally(t) ==
    IF t.live
    THEN showConfirmModal' = FALSE /\ menuToDelete' = None
    ELSE UNCHANGED <<showConfirmModal, menuToDelete>>

\* confirmDeleteMenu has returned; the event names the last step it reached
DeleteDone(t, ok, ids) ==
    [Event("confirmDeleteMenu.done") EXCEPT
        !.ok = ok, !.id = t.id, !.code = Get(t.data).code, !.ids = ids,
        !.step = t.pc]

\* confirmDeleteMenu: the private deleteDoc is answered; on success the
\* published document's reference is built, which throws for an empty code
DeletePrivate(sc) ==
    \E t \in tasks, ok \in sc.oks :
    /\ t.kind = "delete" /\ t.pc = "deletePrivate"
    /\ menusCol' = (IF ok THEN DeleteDoc(menusCol, <<t.chef, t.id>>) ELSE menusCol)
    /\ IF Proceeds(ok, ValidSegment(Get(t.data).code))
       THEN /\ tasks' = (tasks \ {t}) \cup {[t EXCEPT !.pc = "deletePublished"]}
            /\ UNCHANGED <<showConfirmModal, menuToDelete>>
            /\ ev' = Event("step")
       ELSE /\ tasks' = tasks \ {t}
            /\ DeleteFinally(t)
            /\ ev' = DeleteDone(t, FALSE, {})
    /\ listeners' = NextListeners(menusCol', ordersCol, DepsNow)
    /\ UNCHANGED <<publishedCol, ordersCol, pendingDeletes, envVars, fbVars, appVars,
                   menus, newMenuName, selectedMenu, orders, modalMessage, menu, pub>>

\* confirmDeleteMenu: the published deleteDoc is answered
DeletePublished(sc) ==
    \E t \in tasks, ok \in sc.oks :
    /\ t.kind = "delete" /\ t.pc = "deletePublished"
    /\ publishedCol' = (IF ok THEN DeleteDoc(publishedCol, Get(t.data).code)
                        ELSE publishedCol)
    /\ IF Proceeds(ok, TRUE)
       THEN /\ tasks' = (tasks \ {t}) \cup {[t EXCEPT !.pc = "getDocs"]}
            /\ UNCHANGED <<showConfirmModal, menuToDelete>>
            /\ ev' = [Event("confirmDeleteMenu.deletePublished") EXCEPT
                        !.id = t.id, !.code = Get(t.data).code]
       ELSE /\ tasks' = tasks \ {t}
            /\ DeleteFinally(t)
            /\ ev' = DeleteDone(t, FALSE, {})
    /\ UNCHANGED <<menusCol, ordersCol, pendingDeletes, listeners, envVars, fbVars,
                   appVars, menus, newMenuName, selectedMenu, orders, modalMessage,
                   menu, pub>>

\* mutant: the orders found are left alone
OrdersToDeleteNone(orderDocs) == {}

\* mutant: only the first order found is deleted
OrdersToDeleteFirst(orderDocs) ==
    IF orderDocs = {} THEN {}
    ELSE {CHOOSE k \in {d.key : d \in orderDocs} : \A d \in orderDocs : k <= d.key}

\* orderDocs.forEach(d => deleteDoc(d.ref)): the deletions started
OrdersToDelete(orderDocs) == {d.key : d \in orderDocs}

\* selectedMenu?.code === menuToDelete.code, on the values the handler closed over
SelectedIsDeleted(sel, m) == IsSome(sel) /\ Get(sel).code = m.code

\* confirmDeleteMenu: getDocs is answered; the order deletions are started and
\* not awaited, the selection is cleared, the dialog is closed
DeleteGetDocs(sc) ==
    \E t \in tasks, ok \in sc.oks :
    /\ t.kind = "delete" /\ t.pc = "getDocs"
    /\ tasks' = tasks \ {t}
    /\ DeleteFinally(t)
    /\ LET orderDocs == OrdersQuery(ordersCol, Get(t.data).code)
           clear == Proceeds(ok, TRUE) /\ t.live /\ SelectedIsDeleted(t.sel, Get(t.data))
           depsNew == Deps(page, db, userId, isAuthReady, selectedMenu', currentMenuId)
       IN  /\ pendingDeletes' =
                 (IF Proceeds(ok, TRUE) THEN pendingDeletes \cup OrdersToDelete(orderDocs)
                  ELSE pendingDeletes)
           /\ selectedMenu' = (IF clear THEN None ELSE selectedMenu)
           /\ listeners' = NextListeners(menusCol, ordersCol, depsNew)
           /\ orders' = OrdersAfterEffect(orders, DepsNow, depsNew)
           /\ ev' = DeleteDone(t, ok, {d.key : d \in orderDocs})
    /\ UNCHANGED <<menusCol, publishedCol, ordersCol, envVars, fbVars, appVars, menus,
                   newMenuName, modalMessage, menu, pub>>

\* a deleteDoc of an order, started and not awaited, is answered
OrderDeleteDone(sc) ==
    \E k \in pendingDeletes, ok \in sc.oks :
    /\ pendingDeletes' = pendingDeletes \ {k}
    /\ ordersCol' = (IF ok THEN DeleteDoc(ordersCol, k) ELSE ordersCol)
    /\ listeners' = NextListeners(menusCol, ordersCol', DepsNow)
    /\ ev' = Event("step")
    /\ UNCHANGED <<menusCol, publishedCol, envVars, fbVars, appVars, dashVars, menu,
                   tasks, pub>>

\* a listener with a delivery due, marked as served
Served(l) == (listeners \ {l}) \cup {[l EXCEPT !.dirty = FALSE]}

\* mutant: the delivered documents are added to the list
MenusAfterSnapshotMerge(old, fetched) ==
    old \o SelectSeq(fetched, LAMBDA m : \A i \in 1..Len(old) : old[i].id # m.id)

\* setMenus(fetchedMenus)
MenusAfterSnapshot(old, fetched) == fetched

\* mutant: the selection is kept
SelectionAfterSnapshotKeep(current, sel, fetched) == current

\* if (selectedMenu && !fetchedMenus.find(m => m.id === selectedMenu.id))
\*     setSelectedMenu(null), on the selectedMenu the callback closed over
SelectionAfterSnapshot(current, sel, fetched) ==
    IF IsSome(sel) /\ ~\E i \in 1..Len(fetched) : fetched[i].id = Get(sel).id
    THEN None ELSE current

\* the callback of the menus subscription; the event records the documents
\* delivered and the id of the menu that was selected
DeliverMenus ==
    \E l \in listeners :
    /\ l.kind = "menus" /\ l.dirty
    /\ LET fetchedMenus == MenusSnapshot(menusCol, l.owner)
           depsNew == Deps(page, db, userId, isAuthReady, selectedMenu', currentMenuId)
       IN  /\ menus' = MenusAfterSnapshot(menus, fetchedMenus)
           /\ selectedMenu' = SelectionAfterSnapshot(selectedMenu, l.sel, fetchedMenus)
           /\ listeners' = ListenersAfter(Served(l), menusCol, ordersCol, depsNew)
           /\ orders' = OrdersAfterEffect(orders, DepsNow, depsNew)
           /\ ev' = [Event("onSnapshot.menus") EXCEPT
                       !.list = Some(fetchedMenus),
                       !.ids = {Get(selectedMenu).id : x \in {1} \cap {Len(selectedMenu)}}]
    /\ UNCHANGED <<menusCol, publishedCol, ordersCol, pendingDeletes, envVars, fbVars,
                   appVars, newMenuName, modalMessage, showConfirmModal, menuToDelete,
                   menu, tasks, pub>>

\* the callback of the orders subscription
DeliverOrders ==
    \E l \in listeners :
    /\ l.kind = "orders" /\ l.dirty
    /\ orders' = OrdersSnapshot(ordersCol, l.code)
    /\ listeners' = Served(l)
    /\ ev' = Event("step")
    /\ UNCHANGED <<menusCol, publishedCol, ordersCol, pendingDeletes, envVars, fbVars,
                   appVars, menus, newMenuName, selectedMenu, modalMessage,
                   showConfirmModal, menuToDelete, menu, tasks, pub>>

-----------------------------------------------------------------------------
(* MenuCreator *)

\* the callback of the menu document subscription
DeliverMenuDoc ==
    \E l \in listeners :
    /\ l.kind = "menuDoc" /\ l.dirty
    /\ listeners' = Served(l)
    /\ LET docSnap == GetDoc(menusCol, <<l.owner, l.id>>) IN
       IF IsSome(docSnap)
       THEN /\ menu' = Some(LocalMenu(Get(docSnap)))
            /\ UNCHANGED appVars
       ELSE /\ HandleSetPage("chefDashboard", None, None)
            /\ UNCHANGED menu
    /\ ev' = Event("step")
    /\ UNCHANGED <<menusCol, publishedCol, ordersCol, pendingDeletes, envVars, fbVars,
                   dashVars, tasks, pub>>

\* updateAndRepublish up to its first await
UpdateAndRepublish(sc) ==
    /\ Rendered(page) = "menuCreator"
    /\ IF ~db \/ userId = None \/ menu = None
       THEN UNCHANGED tasks
       ELSE /\ Cardinality(tasks) < sc.tasks
            /\ \E updates \in sc.updates :
                  tasks' = tasks \cup
                     {Task("update", "updateDoc", Get(userId), Get(menu).id, None, None,
                           Some(updates))}
    /\ ev' = Event("step")
    /\ UNCHANGED <<storeVars, envVars, fbVars, appVars, dashVars, menu, pub>>

UpdateDone(t, ok) ==
    [Event("updateAndRepublish.done") EXCEPT !.ok = ok, !.id = t.id, !.updates = t.updates]

\* updateAndRepublish: updateDoc is answered; it is rejected when the document
\* does not exist
UpdateUpdateDoc(sc) ==
    \E t \in tasks, ok \in sc.oks :
    /\ t.kind = "update" /\ t.pc = "updateDoc"
    /\ LET key == <<t.chef, t.id>>
           done == ok /\ DocExists(menusCol, key)
       IN  /\ menusCol' = (IF done THEN UpdateDoc(menusCol, key, Get(t.updates))
                           ELSE menusCol)
           /\ tasks' = (tasks \ {t}) \cup
                 (IF done THEN {[t EXCEPT !.pc = "getDoc"]} ELSE {})
           /\ ev' = (IF done THEN Event("step")
                     ELSE UpdateDone(t, FALSE))
    /\ listeners' = NextListeners(menusCol', ordersCol, DepsNow)
    /\ UNCHANGED <<publishedCol, ordersCol, pendingDeletes, envVars, fbVars, appVars,
                   dashVars, menu, pub>>

\* updateAndRepublish: getDoc is answered; if the document exists publishMenu
\* runs up to its setDoc, or returns at its guard
UpdateGetDoc(sc) ==
    \E t \in tasks, ok \in sc.oks :
    /\ t.kind = "update" /\ t.pc = "getDoc"
    /\ LET updatedDoc == GetDoc(menusCol, <<t.chef, t.id>>)
           publish == /\ ok /\ IsSome(updatedDoc)
                      /\ PublishGuard(TRUE, AsMenuData(Get(updatedDoc)), Some(t.chef),
                                      Some(t.id))
       IN  IF publish
           THEN /\ tasks' = (tasks \ {t}) \cup
                      {[t EXCEPT !.pc = "publish",
                                 !.payload = Some(MenuToPublish(
                                     Get(AsMenuData(Get(updatedDoc))), Some(t.chef),
                                     Some(t.id), now))]}
                /\ ev' = Event("step")
           ELSE /\ tasks' = tasks \ {t}
                /\ ev' = UpdateDone(t, ok)
    /\ UNCHANGED <<storeVars, envVars, fbVars, appVars, dashVars, menu, pub>>

\* updateAndRepublish: publishMenu's setDoc is answered
UpdatePublish(sc) ==
    \E t \in tasks, ok \in sc.oks :
    /\ t.kind = "update" /\ t.pc = "publish"
    /\ publishedCol' = PublishWrite(publishedCol, Get(t.payload), ok)
    /\ tasks' = tasks \ {t}
    /\ ev' = UpdateDone(t, ok)
    /\ UNCHANGED <<menusCol, ordersCol, pendingDeletes, listeners, envVars, fbVars,
                   appVars, dashVars, menu, pub>>

-----------------------------------------------------------------------------
(* Family users *)

\* submitOrder: an order document is added; the code is not checked
SubmitOrder(sc) ==
    /\ db
    /\ nextOrderId <= sc.orders
    /\ \E code \in {generateCode(r) : r \in sc.randoms} \ {<<>>} :
          ordersCol' = ordersCol \cup {[key |-> nextOrderId, menuCode |-> code]}
    /\ nextOrderId' = nextOrderId + 1
    /\ listeners' = NextListeners(menusCol, ordersCol', DepsNow)
    /\ ev' = Event("step")
    /\ UNCHANGED <<menusCol, publishedCol, pendingDeletes, now, nextMenuId, fbVars,
                   appVars, dashVars, menu, tasks, pub>>

-----------------------------------------------------------------------------
(* The session of another chef, on the same store *)

OtherChef == "chef2"

\* createNewMenu run to its end in the other chef's session: the private menu
\* is set under that chef's collection and published under its code
OtherChefCreates(sc) ==
    /\ db
    /\ nextMenuId <= sc.menus
    /\ \E r1 \in sc.randoms, r2 \in CategoryRandomSource, name \in sc.names :
          LET d == PrivateMenuData(OtherChef, nextMenuId, name, generateCode(r1), r2, now)
          IN  /\ ~NameIsBlank(name)
              /\ menusCol' = SetDoc(menusCol, d.key, d)
              /\ publishedCol' = PublishMenu(publishedCol, TRUE, AsMenuData(d),
                                            Some(OtherChef), Some(nextMenuId), now, TRUE)
              /\ ev' = [Event("otherChef.createNewMenu") EXCEPT
                          !.id = nextMenuId, !.code = d.code]
    /\ nextMenuId' = nextMenuId + 1
    /\ listeners' = NextListeners(menusCol', ordersCol, DepsNow)
    /\ UNCHANGED <<ordersCol, pendingDeletes, now, nextOrderId, fbVars, appVars,
                   dashVars, menu, tasks, pub>>

-----------------------------------------------------------------------------
(* The application *)

\* what a scenario draws its inputs from
NameBlank == <<" ">>
NameLunch == <<"L">>
UpdateName == [name |-> <<"D">>]
UpdateItems == [items |-> <<"pizza">>, categories |-> <<>>]

Scope(nMenus, nOrders, nTasks, randoms, names, updates, oks) ==
    [menus |-> nMenus, orders |-> nOrders, tasks |-> nTasks, randoms |-> randoms,
     names |-> names, updates |-> updates, oks |-> oks]

\* the whole application, at the smallest bounds
AppScope == Scope(AppMenus, AppOrders, AppTasks, {RandomHalf}, {NameLunch},
                  {UpdateName}, BOOLEAN)

Next ==
    \/ AuthStateChanged
    \/ GoDashboard \/ GoBack \/ OpenMenuCreator \/ HandleHashChange
    \/ SetNewMenuName(AppScope) \/ CreateNewMenu(AppScope)
    \/ CreateSetDoc(AppScope) \/ CreatePublish(AppScope)
    \/ SelectMenu \/ HandleDeleteMenu \/ ConfirmDeleteMenu(AppScope)
    \/ DeletePrivate(AppScope) \/ DeletePublished(AppScope) \/ DeleteGetDocs(AppScope)
    \/ OrderDeleteDone(AppScope)
    \/ DeliverMenus \/ DeliverOrders \/ DeliverMenuDoc
    \/ UpdateAndRepublish(AppScope) \/ UpdateUpdateDoc(AppScope)
    \/ UpdateGetDoc(AppScope) \/ UpdatePublish(AppScope)
    \/ SubmitOrder(AppScope)

Spec == Init /\ [][Next]_vars

\* creating menus: two menus, two calls in flight, every random value
CreateScope == Scope(CreateMenus, 0, CreateTasks, RandomSource, {NameBlank, NameLunch},
                     {}, BOOLEAN)

NextCreate ==
    \/ AuthStateChanged
    \/ GoDashboard \/ GoBack \/ HandleHashChange
    \/ SetNewMenuName(CreateScope) \/ CreateNewMenu(CreateScope)
    \/ CreateSetDoc(CreateScope) \/ CreatePublish(CreateScope)
    \/ DeliverMenus

SpecCreate == Init /\ [][NextCreate]_vars

\* the menu list and the selection: two menus created, selected and deleted
ListScope == Scope(ListMenus, 0, ListTasks, {RandomZero, RandomHalf}, {NameLunch},
                   {}, BOOLEAN)

NextList ==
    \/ AuthStateChanged
    \/ GoDashboard \/ GoBack \/ HandleHashChange
    \/ SetNewMenuName(ListScope) \/ CreateNewMenu(ListScope)
    \/ CreateSetDoc(ListScope) \/ CreatePublish(ListScope)
    \/ SelectMenu \/ HandleDeleteMenu \/ ConfirmDeleteMenu(ListScope)
    \/ DeletePrivate(ListScope) \/ DeletePublished(ListScope) \/ DeleteGetDocs(ListScope)
    \/ DeliverMenus \/ DeliverOrders

SpecList == Init /\ [][NextList]_vars

\* deleting a menu with its orders: two orders, two calls in flight
DeleteScope == Scope(DeleteMenus, DeleteOrders, DeleteTasks, {RandomZero, RandomHalf},
                     {NameLunch}, {}, BOOLEAN)

NextDelete ==
    \/ AuthStateChanged
    \/ GoDashboard \/ GoBack \/ HandleHashChange
    \/ SetNewMenuName(DeleteScope) \/ CreateNewMenu(DeleteScope)
    \/ CreateSetDoc(DeleteScope) \/ CreatePublish(DeleteScope)
    \/ SelectMenu \/ HandleDeleteMenu \/ ConfirmDeleteMenu(DeleteScope)
    \/ DeletePrivate(DeleteScope) \/ DeletePublished(DeleteScope)
    \/ DeleteGetDocs(DeleteScope) \/ OrderDeleteDone(DeleteScope)
    \/ DeliverMenus \/ DeliverOrders
    \/ SubmitOrder(DeleteScope)

SpecDelete == Init /\ [][NextDelete]_vars

OverlapMenus == 1
OverlapTasks == 2

\* overlapping updates of one menu over a store that accepts every call;
\* every code is non-empty
OverlapScope == Scope(OverlapMenus, 0, OverlapTasks, {RandomHalf}, {NameLunch},
                      {UpdateName, UpdateItems}, {TRUE})

NextOverlap ==
    \/ AuthStateChanged
    \/ GoDashboard \/ GoBack \/ OpenMenuCreator \/ HandleHashChange
    \/ SetNewMenuName(OverlapScope) \/ CreateNewMenu(OverlapScope)
    \/ CreateSetDoc(OverlapScope) \/ CreatePublish(OverlapScope)
    \/ DeliverMenus \/ DeliverMenuDoc
    \/ UpdateAndRepublish(OverlapScope) \/ UpdateUpdateDoc(OverlapScope)
    \/ UpdateGetDoc(OverlapScope) \/ UpdatePublish(OverlapScope)

SpecOverlap == Init /\ [][NextOverlap]_vars

RepublishMenus == 1
RepublishTasks == 2

\* a menu is edited and deleted over a store that accepts every call; every
\* code is non-empty and no order is placed
RepublishScope == Scope(RepublishMenus, 0, RepublishTasks, {RandomHalf}, {NameLunch},
                        {UpdateName}, {TRUE})

NextRepublish ==
    \/ AuthStateChanged
    \/ GoDashboard \/ GoBack \/ OpenMenuCreator \/ HandleHashChange
    \/ SetNewMenuName(RepublishScope) \/ CreateNewMenu(RepublishScope)
    \/ CreateSetDoc(RepublishScope) \/ CreatePublish(RepublishScope)
    \/ DeliverMenus \/ DeliverMenuDoc
    \/ UpdateAndRepublish(RepublishScope) \/ UpdateUpdateDoc(RepublishScope)
    \/ UpdateGetDoc(RepublishScope) \/ UpdatePublish(RepublishScope)
    \/ HandleDeleteMenu \/ ConfirmDeleteMenu(RepublishScope)
    \/ DeletePrivate(RepublishScope) \/ DeletePublished(RepublishScope)
    \/ DeleteGetDocs(RepublishScope)

SpecRepublish == Init /\ [][NextRepublish]_vars

SharedMenus == 2
SharedOrders == 1
SharedTasks == 1

\* two chefs on one store that accepts every call; the random source gives
\* both the same, non-empty code
SharedScope == Scope(SharedMenus, SharedOrders, SharedTasks, {RandomHalf}, {NameLunch},
                     {}, {TRUE})

NextShared ==
    \/ AuthStateChanged
    \/ GoDashboard \/ GoBack \/ HandleHashChange
    \/ SetNewMenuName(SharedScope) \/ CreateNewMenu(SharedScope)
    \/ CreateSetDoc(SharedScope) \/ CreatePublish(SharedScope)
    \/ HandleDeleteMenu \/ ConfirmDeleteMenu(SharedScope)
    \/ DeletePrivate(SharedScope) \/ DeletePublished(SharedScope)
    \/ DeleteGetDocs(SharedScope) \/ OrderDeleteDone(SharedScope)
    \/ DeliverMenus
    \/ SubmitOrder(SharedScope)
    \/ OtherChefCreates(SharedScope)

SpecShared == Init /\ [][NextShared]_vars

SwitchMenus == 2
SwitchOrders == 1
SwitchTasks == 1

\* the selection moves between two menus with different codes while an order
\* is placed; the store accepts every call
SwitchScope == Scope(SwitchMenus, SwitchOrders, SwitchTasks, {RandomHalf, RandomLong},
                     {NameLunch}, {}, {TRUE})

NextSwitch ==
    \/ AuthStateChanged
    \/ GoDashboard \/ GoBack \/ HandleHashChange
    \/ SetNewMenuName(SwitchScope) \/ CreateNewMenu(SwitchScope)
    \/ CreateSetDoc(SwitchScope) \/ CreatePublish(SwitchScope)
    \/ SelectMenu
    \/ DeliverMenus \/ DeliverOrders
    \/ SubmitOrder(SwitchScope)

SpecSwitch == Init /\ [][NextSwitch]_vars

FairMenus == 1
FairOrders == 2
FairTasks == 1

\* deleting a menu with its orders over a store that accepts every call and
\* answers every order deletion it was sent
FairScope == Scope(FairMenus, FairOrders, FairTasks, {RandomHalf}, {NameLunch}, {},
                   {TRUE})

NextDeleteFair ==
    \/ AuthStateChanged
    \/ GoDashboard \/ GoBack \/ HandleHashChange
    \/ SetNewMenuName(FairScope) \/ CreateNewMenu(FairScope)
    \/ CreateSetDoc(FairScope) \/ CreatePublish(FairScope)
    \/ SelectMenu \/ HandleDeleteMenu \/ ConfirmDeleteMenu(FairScope)
    \/ DeletePrivate(FairScope) \/ DeletePublished(FairScope)
    \/ DeleteGetDocs(FairScope) \/ OrderDeleteDone(FairScope)
    \/ DeliverMenus \/ DeliverOrders
    \/ SubmitOrder(FairScope)

\* every step of OrderDeleteDone changes pendingDeletes
SpecDeleteFair ==
    Init /\ [][NextDeleteFair]_vars /\ WF_pendingDeletes(OrderDeleteDone(FairScope))

NavMenus == 1
NavTasks == 1

\* navigation: every way the hash changes, with one menu to open
NavScope == Scope(NavMenus, 0, NavTasks, {RandomHalf}, {NameLunch}, {}, {TRUE})

NextNav ==
    \/ AuthStateChanged
    \/ GoDashboard \/ GoBack \/ FamilyAccess \/ OpenMenuCreator
    \/ EditHash \/ HandleHashChange
    \/ SetNewMenuName(NavScope) \/ CreateNewMenu(NavScope)
    \/ CreateSetDoc(NavScope) \/ CreatePublish(NavScope)
    \/ DeliverMenus \/ DeliverMenuDoc

SpecNav == Init /\ [][NextNav]_vars

\* editing a menu: two calls in flight, both kinds of update
EditScope == Scope(EditMenus, 0, EditTasks, {RandomZero, RandomHalf}, {NameLunch},
                   {UpdateName, UpdateItems}, BOOLEAN)

NextEdit ==
    \/ AuthStateChanged
    \/ GoDashboard \/ GoBack \/ OpenMenuCreator \/ HandleHashChange
    \/ SetNewMenuName(EditScope) \/ CreateNewMenu(EditScope)
    \/ CreateSetDoc(EditScope) \/ CreatePublish(EditScope)
    \/ DeliverMenus \/ DeliverMenuDoc
    \/ UpdateAndRepublish(EditScope) \/ UpdateUpdateDoc(EditScope)
    \/ UpdateGetDoc(EditScope) \/ UpdatePublish(EditScope)

SpecEdit == Init /\ [][NextEdit]_vars

-----------------------------------------------------------------------------
(* publishMenu called on its own, twice with the same arguments *)

PubMenuData ==
    {None} \cup
    {Some([name |-> n, code |-> c, items |-> i, categories |-> k]) :
        n \in {None, Some(<<"L">>)},
        c \in {None} \cup {Some(generateCode(r)) : r \in RandomSource},
        i \in {None, Some(<<"pizza">>)},
        k \in {None, Some(PrivateMenuData(Chef, 1, <<"L">>, <<"I">>, <<18>>, 0).categories)}}

PubChoose ==
    /\ pub.round < MaxRounds
    /\ pub.args = None \/ pub.calls = 2
    /\ \E md \in PubMenuData, c \in {None, Some("chef1")}, o \in {None, Some(1)},
          d \in BOOLEAN :
          pub' = [args |-> Some([db |-> d, menuData |-> md, chefId |-> c,
                                 menuIdOriginal |-> o]),
                  round |-> pub.round + 1, calls |-> 0, oks |-> <<>>,
                  before |-> publishedCol, first |-> publishedCol]
    /\ UNCHANGED <<storeVars, envVars, fbVars, appVars, dashVars, menu, tasks, ev>>

PubCall ==
    /\ IsSome(pub.args)
    /\ pub.calls < 2
    /\ \E ok \in BOOLEAN :
          LET a == Get(pub.args) IN
          /\ publishedCol' = PublishMenu(publishedCol, a.db, a.menuData, a.chefId,
                                         a.menuIdOriginal, now, ok)
          /\ pub' = [pub EXCEPT !.calls = @ + 1, !.oks = Append(@, ok),
                                !.first = IF pub.calls = 0 THEN publishedCol' ELSE @]
    /\ UNCHANGED <<menusCol, ordersCol, pendingDeletes, listeners, envVars, fbVars,
                   appVars, dashVars, menu, tasks, ev>>

NextPublish == PubChoose \/ PubCall \/ Tick

SpecPublish == Init /\ [][NextPublish]_vars

-----------------------------------------------------------------------------
(* Properties of publishMenu *)

WithoutTime(col) == {[f \in DOMAIN d \ {"updatedAt"} |-> d[f]] : d \in col}

\* the harness arguments name a database, a snapshot with a code and a name,
\* a chef and an original menu id
PubComplete ==
    /\ IsSome(pub.args)
    /\ LET a == Get(pub.args) IN
         /\ a.db /\ IsSome(a.menuData) /\ IsSome(a.chefId) /\ IsSome(a.menuIdOriginal)
         /\ IsSome(Get(a.menuData).code) /\ Get(Get(a.menuData).code) # <<>>
         /\ IsSome(Get(a.menuData).name)

\* the code, chef or original menu id is missing from the harness arguments
PubMissing ==
    /\ IsSome(pub.args)
    /\ LET a == Get(pub.args) IN
         \/ a.menuData = None
         \/ Get(a.menuData).code \in {None, Some(<<>>)}
         \/ a.chefId = None
         \/ a.menuIdOriginal = None

\* C5: publishMenu is idempotent. After two calls in a row with the same
\* arguments (the first one's write, if any, accepted by the store) the
\* published_menus collection is what it was after the first call, except for
\* updatedAt; when the arguments are complete exactly one document exists for
\* the code, holding the snapshot's name, code, items and categories, the
\* chefId and menuId_original.
C5_PublishIdempotent ==
    (pub.calls = 2 /\ pub.oks[1]) =>
        /\ WithoutTime(publishedCol) = WithoutTime(pub.first)
        /\ PubComplete =>
              LET a == Get(pub.args)
                  md == Get(a.menuData)
                  code == Get(md.code)
                  docs == {d \in publishedCol : d.code = code}
              IN  /\ Cardinality(docs) = 1
                  /\ {d \in publishedCol : d.code # code}
                        = {d \in pub.first : d.code # code}
                  /\ \A d \in docs :
                        /\ d.key = code
                        /\ d.name = md.name
                        /\ d.items = (IF md.items = None THEN <<>> ELSE Get(md.items))
                        /\ d.categories =
                              (IF md.categories = None THEN <<>> ELSE Get(md.categories))
                        /\ d.chefId = a.chefId
                        /\ d.menuId_original = a.menuIdOriginal

\* C5 witness: both calls wrote, at different times, over an older document
C5_Witness ==
    /\ pub.calls = 2 /\ pub.oks = <<TRUE, TRUE>> /\ PubComplete
    /\ publishedCol # pub.first
    /\ \E d \in pub.before : d.code = Get(Get(Get(pub.args).menuData).code)

\* C7: publishMenu called with a missing or empty code, a missing chefId or a
\* missing originalMenuId writes nothing: published_menus is what it was
\* before the call.
C7_PublishGuardNoWrite ==
    (pub.calls >= 1 /\ PubMissing) => publishedCol = pub.before

\* C7 witness: a call with only the chefId missing, on a non-empty collection,
\* answered by a store that accepts writes
C7_Witness ==
    /\ pub.calls >= 1 /\ pub.oks[1] /\ pub.before # {}
    /\ LET a == Get(pub.args) IN
         /\ a.chefId = None /\ a.db /\ IsSome(a.menuIdOriginal)
         /\ IsSome(a.menuData) /\ Truthy(Get(a.menuData).code)
         /\ IsSome(Get(a.menuData).name)

-----------------------------------------------------------------------------
(* Properties of the dashboard's handlers.  ev names the handler that has   *)
(* just returned: its outcome (ok: every store call it made was accepted),  *)
(* the menu's id and code.                                                  *)

PrivateAbsent(id) == ~DocExists(menusCol, <<Chef, id>>)
PublishedAbsent(code) == ~DocExists(publishedCol, code)

DeleteReturned == ev.op = "confirmDeleteMenu.done" /\ ev.ok

\* C1 as stated: when confirmDeleteMenu has returned with no store failure
\* the private menu is absent, the published menu under its code is absent
\* and no order with that code exists.
C1_DeleteRemovesAll ==
    DeleteReturned =>
        /\ PrivateAbsent(ev.id)
        /\ PublishedAbsent(ev.code)
        /\ OrdersQuery(ordersCol, ev.code) = {}

\* C1, amended: when confirmDeleteMenu has returned with no store failure the
\* private menu is absent and the deletion of every order the query by the
\* menu's code returned has been started, though not necessarily completed;
\* the published menu under the code is absent when its deleteDoc has been
\* answered.
C1_DeleteStartsAll ==
    /\ DeleteReturned =>
          /\ PrivateAbsent(ev.id)
          /\ ev.ids = {d.key : d \in OrdersQuery(ordersCol, ev.code)}
          /\ ev.ids \subseteq pendingDeletes
    /\ ev.op = "confirmDeleteMenu.deletePublished" => PublishedAbsent(ev.code)

\* C1 witness: confirmDeleteMenu has returned for a menu with two orders,
\* both still stored
C1_Witness ==
    /\ DeleteReturned
    /\ Cardinality(ev.ids) = 2
    /\ Cardinality(OrdersQuery(ordersCol, ev.code)) = 2

CreateReturned == ev.op = "createNewMenu.done" /\ ev.ok

\* C2: when createNewMenu has completed with both store writes accepted, a
\* published menu exists under the private menu's code, and its code, name,
\* items and categories are those of the private menu just written, its
\* chefId the creating chef and its menuId_original the private menu's id.
C2_CreatePublishes ==
    CreateReturned =>
        LET private == GetDoc(menusCol, <<Chef, ev.id>>)
            published == GetDoc(publishedCol, ev.code)
        IN  /\ IsSome(private) /\ IsSome(published)
            /\ Get(private) = Get(ev.doc)
            /\ Get(published).code = Get(private).code
            /\ Get(published).name = Some(Get(private).name)
            /\ Get(published).items = Get(private).items
            /\ Get(published).categories = Get(private).categories
            /\ Get(published).chefId = Some(Chef)
            /\ Get(published).menuId_original = Some(ev.id)

\* C2 witness: the second menu has been created and published, under the
\* code of the first
C2_Witness ==
    /\ CreateReturned /\ ev.id = 2
    /\ Cardinality(menusCol) = 2
    /\ \A d \in menusCol : d.code = ev.code

IsCode(code) ==
    /\ Len(code) = 6
    /\ \A i \in 1..Len(code) : \E j \in 1..36 : Upper36[j] = code[i]

\* C3 as stated: every code createNewMenu assigns to a menu is exactly 6
\* characters long, each in A-Z or 0-9.
C3_CodeIsSixChars ==
    \A d \in menusCol : IsCode(d.code)

UpdateReturned == ev.op = "updateAndRepublish.done" /\ ev.ok

\* C4 as stated: when updateAndRepublish has completed with no store failure
\* the private menu holds the updated values and the published menu under its
\* code holds the private menu's name, items and categories.
C4_UpdateRepublishes ==
    UpdateReturned =>
        LET private == GetDoc(menusCol, <<Chef, ev.id>>)
        IN  /\ IsSome(private)
            /\ ApplyUpdates(Get(private), Get(ev.updates)) = Get(private)
            /\ LET published == GetDoc(publishedCol, Get(private).code)
               IN  /\ IsSome(published)
                   /\ Get(published).name = Some(Get(private).name)
                   /\ Get(published).items = Get(private).items
                   /\ Get(published).categories = Get(private).categories

\* C6: createNewMenu called by a signed-in chef with an empty or
\* whitespace-only name writes nothing: menus and published_menus are
\* unchanged and no store call is started, the validation message is shown
\* and the draft name is kept.
C6_BlankNameNoWrite ==
    [][(ev'.op = "createNewMenu" /\ Trim(newMenuName) = <<>> /\ db /\ IsSome(userId)) =>
          /\ menusCol' = menusCol /\ publishedCol' = publishedCol
          /\ tasks' = tasks
          /\ modalMessage' = MsgNameRequired
          /\ newMenuName' = newMenuName]_vars

\* C6 witness: createNewMenu has returned for a whitespace-only name
C6_Witness ==
    /\ ev.op = "createNewMenu" /\ ev.name = Some(NameBlank)
    /\ db /\ IsSome(userId)
    /\ newMenuName = NameBlank /\ modalMessage = MsgNameRequired

MenusDelivered == ev.op = "onSnapshot.menus"

\* C8: every delivery of the menus subscription replaces the dashboard's list
\* with the full current set of the chef's menus in the store.
C8_DeliveryIsFullSnapshot ==
    MenusDelivered =>
        /\ menus = Get(ev.list)
        /\ menus = MenusSnapshot(menusCol, Chef)

\* C8 witness: menu 2 was created while menu 1 existed, and [1, 2] is delivered
C8_Witness ==
    /\ MenusDelivered
    /\ Len(menus) = 2 /\ menus[1].id = 1 /\ menus[2].id = 2

\* C9: after a delivery of the menus subscription has been processed the
\* selected menu is null or a menu whose id is in the delivered list.
C9_SelectionInDelivered ==
    MenusDelivered =>
        \/ selectedMenu = None
        \/ \E i \in 1..Len(menus) : menus[i].id = Get(selectedMenu).id

\* C9 witness: the delivery has cleared a selection whose menu has disappeared
\* while another menu is still listed
C9_Witness ==
    /\ MenusDelivered
    /\ ev.ids # {} /\ selectedMenu = None /\ menus # <<>>

-----------------------------------------------------------------------------
(* Properties of the subscriptions *)

\* the listener belongs to an effect of the mounted page, at the values the
\* effect last ran with
Current(l) ==
    CASE l.kind = "menus" ->
            /\ Rendered(page) = "chefDashboard"
            /\ Some(l.owner) = userId /\ l.sel = selectedMenu
      [] l.kind = "orders" ->
            /\ Rendered(page) = "chefDashboard"
            /\ HasCode(selectedMenu) /\ l.code = Get(selectedMenu).code
      [] l.kind = "menuDoc" ->
            /\ Rendered(page) = "menuCreator"
            /\ Some(l.owner) = userId /\ Some(l.id) = currentMenuId

\* C10: a subscription cancelled by the teardown of its page or by a change of
\* its dependencies makes no further delivery: the store holds no listener
\* but those of the mounted page's effects at their current dependencies, at
\* most one of each kind, and none once the page is torn down.
C10_NoDeliveryAfterCancel ==
    /\ \A l \in listeners : Current(l)
    /\ \A l1, l2 \in listeners : l1.kind = l2.kind => l1 = l2

\* C10 witness: the dashboard was torn down while createNewMenu was waiting
\* for the store; the menu is written afterwards and nothing listens
C10_Witness ==
    /\ ev.op = "createNewMenu.setDoc"
    /\ Rendered(page) = "home"
    /\ menusCol # {} /\ listeners = {} /\ menus = <<>>

-----------------------------------------------------------------------------
(* Properties of the navigation *)

KnownPages == {"home", "chefDashboard", "menuCreator", "familyOrder"}

\* the value under key k in the hash h, absent when the key is missing or
\* its value empty
HashValue(h, k) ==
    LET v == HashGet(h, k) IN IF v \in {None, Some(<<>>)} THEN None ELSE Some(Get(v)[1])

\* the page state is what the hash says
FollowsHash(h, p, menuId, code) ==
    /\ p = (IF HashValue(h, "page") = None THEN "home" ELSE Get(HashValue(h, "page")))
    /\ menuId = HashValue(h, "menuId")
    /\ code = HashValue(h, "code")

\* C11: the location hash is the single source of truth for navigation. A
\* step that changes the hash leaves page, menuId and code as they were; once
\* every hash change has been handled, page, menuId and code are the values
\* of the current hash, page defaulting to home and menuId and code to null;
\* a page value that names no known page shows the home page.
C11_HashIsSourceOfTruth ==
    [][/\ hash' # hash =>
             /\ page' = page /\ currentMenuId' = currentMenuId
             /\ currentMenuCodeForFamily' = currentMenuCodeForFamily
       /\ ~hashQueued' =>
             FollowsHash(hash', page', currentMenuId', currentMenuCodeForFamily')
       /\ page' \notin KnownPages => Rendered(page') = "home"]_vars

\* C11 witness: the hash names an unknown page and has been handled
C11_Witness ==
    /\ ~hashQueued /\ HashGet(hash, "page") = Some(<<"nowhere">>)
    /\ page = "nowhere" /\ Rendered(page) = "home"

-----------------------------------------------------------------------------
(* Properties of confirmDeleteMenu under store failures *)

DeleteFailed == ev.op = "confirmDeleteMenu.done" /\ ~ev.ok

\* C12 as stated: a failure of one deletion step does not stop the remaining
\* deletions from being attempted, so when confirmDeleteMenu has returned
\* after its private or published deletion failed, the deletion of every
\* order with the menu's code has been started.
C12_FailureDoesNotStop ==
    (DeleteFailed /\ ev.step \in {"deletePrivate", "deletePublished"}) =>
        \A d \in OrdersQuery(ordersCol, ev.code) : d.key \in pendingDeletes

\* C12, amended: the step at which confirmDeleteMenu fails ends the call: no
\* published menu and no order is deleted, no order deletion is started,
\* nothing is restored and nothing is retried. The order deletions, once
\* started, are independent: the answer to one removes at most that order and
\* leaves the others pending.
C12_FailureStopsTheRest ==
    [][/\ (ev'.op = "confirmDeleteMenu.done" /\ ~ev'.ok) =>
             /\ publishedCol' = publishedCol /\ ordersCol' = ordersCol
             /\ pendingDeletes' = pendingDeletes
             /\ menusCol' \subseteq menusCol
             /\ Cardinality(tasks') < Cardinality(tasks)
       /\ (pendingDeletes' # pendingDeletes /\ ev'.op # "confirmDeleteMenu.done") =>
             \E k \in pendingDeletes :
                /\ pendingDeletes' = pendingDeletes \ {k}
                /\ \A d \in ordersCol \ ordersCol' : d.key = k
                /\ menusCol' = menusCol /\ publishedCol' = publishedCol]_vars

\* C12 witness: the published deletion has failed; the private menu is gone,
\* the published menu and an order for its code survive, and nothing is left
\* running
C12_Witness ==
    /\ DeleteFailed /\ ev.step = "deletePublished"
    /\ PrivateAbsent(ev.id) /\ ~PublishedAbsent(ev.code)
    /\ OrdersQuery(ordersCol, ev.code) # {}
    /\ tasks = {} /\ pendingDeletes = {}

-----------------------------------------------------------------------------
(* Properties of createNewMenu and updateAndRepublish under store failures *)

-----------------------------------------------------------------------------
(* Properties of the order deletions *)

OrderStored(k) == \E d \in ordersCol : d.key = k

\* C14: the order deletions of confirmDeleteMenu are fire-and-forget. When
\* the call returns, the deletion of every order found has been started and
\* none has been waited for, and the confirm dialog of the page that made the
\* call is closed; over a store that accepts every call and answers each
\* deletion, every order found is eventually deleted.
C14_OrdersEventuallyDeleted ==
    /\ [][\A t \in tasks \ tasks' :
             (t.kind = "delete" /\ ev'.op = "confirmDeleteMenu.done" /\ ev'.ok) =>
                /\ ev'.ids = {d.key : d \in OrdersQuery(ordersCol, ev'.code)}
                /\ ev'.ids \subseteq pendingDeletes'
                /\ ordersCol' = ordersCol
                /\ t.live => ~showConfirmModal']_vars
    /\ \A k \in 1..FairOrders :
          (DeleteReturned /\ k \in ev.ids) ~> ~OrderStored(k)

\* C14 witness: confirmDeleteMenu has returned, the dialog is closed, and an
\* order with the menu's code is still stored, its deletion pending
C14_Witness ==
    /\ DeleteReturned /\ ~showConfirmModal /\ tasks = {}
    /\ \E d \in ordersCol : d.menuCode = ev.code /\ d.key \in pendingDeletes

-----------------------------------------------------------------------------
(* Order of the private and the public write *)

\* the private write of the call t was rejected in this step
PrivateWriteFailed(t) ==
    /\ t \in tasks \ tasks'
    /\ t.pc \in {"setDoc", "updateDoc"}
    /\ ev'.op \in {"createNewMenu.done", "updateAndRepublish.done"} /\ ~ev'.ok
    /\ menusCol' = menusCol

\* C15: in createNewMenu and updateAndRepublish the publish write follows the
\* private write. A call whose private write is rejected ends there:
\* published_menus is unchanged and no further store call is made for it.
\* published_menus changes only in the answer to a publish write, which is
\* issued after the private write was accepted, so every published menu's
\* private menu exists (no menu is deleted in this scenario).
C15_PublishAfterPrivate ==
    [][/\ \A t \in tasks :
             PrivateWriteFailed(t) =>
                publishedCol' = publishedCol /\ tasks' = tasks \ {t}
       /\ publishedCol' # publishedCol =>
             \E t \in tasks \ tasks' :
                t.pc = "publish" /\ DocExists(menusCol, <<t.chef, t.id>>)
       /\ \A d \in publishedCol' :
             DocExists(menusCol', <<Get(d.chefId), Get(d.menuId_original)>>)]_vars

\* C15 witness: the private write of createNewMenu has been rejected; neither
\* the private nor the published menu exists
C15_Witness ==
    /\ ev.op = "createNewMenu.done" /\ ~ev.ok /\ ev.code # <<>>
    /\ PrivateAbsent(ev.id) /\ PublishedAbsent(ev.code)
    /\ \A t \in tasks : t.id # ev.id

-----------------------------------------------------------------------------
(* Overlapping calls on one menu *)

\* the published menu under the private menu's code holds its name, items
\* and categories
Projected(private) ==
    LET published == GetDoc(publishedCol, private.code)
    IN  /\ IsSome(published)
        /\ Get(published).name = Some(private.name)
        /\ Get(published).items = private.items
        /\ Get(published).categories = private.categories

\* C16 as stated: once all overlapping updateAndRepublish calls on a menu
\* have completed with no store failure, the published menu's name, items
\* and categories are those of the private menu.
C16_OverlapConverges ==
    (UpdateReturned /\ tasks = {}) =>
        \A m \in menusCol : m.key = <<Chef, ev.id>> => Projected(m)

\* the private menu a published menu was made from is stored
OriginalExists(published) ==
    /\ IsSome(published.chefId) /\ IsSome(published.menuId_original)
    /\ DocExists(menusCol, <<Get(published.chefId), Get(published.menuId_original)>>)

\* C17 as stated: a deleted menu is never republished. When an
\* updateAndRepublish call is the last call to complete, with no store
\* failure, and nothing is in flight, every published menu's menuId_original names a private menu that
\* is stored; so if the menu was deleted while the call was in flight, no
\* published menu is left for its code.
C17_NoRepublishAfterDelete ==
    (UpdateReturned /\ tasks = {}) =>
        \A published \in publishedCol : OriginalExists(published)

-----------------------------------------------------------------------------
(* Two chefs *)

\* the order's menuCode names a published menu of the other chef
AgainstOther(order) ==
    \E published \in publishedCol :
       published.code = order.menuCode /\ published.chefId = Some(OtherChef)

\* C18 as stated: the handlers of one chef's session leave the other chef's
\* data alone. No step of the session removes or replaces a published menu
\* whose chefId is the other chef, whatever codes the menus received, and no
\* step removes an order whose menuCode names a published menu of the other
\* chef.
C18_OnlyOwnData ==
    [][ev'.op # "otherChef.createNewMenu" =>
          /\ \A published \in publishedCol :
                published.chefId = Some(OtherChef) => published \in publishedCol'
          /\ \A order \in ordersCol \ ordersCol' : ~AgainstOther(order)]_vars

-----------------------------------------------------------------------------
(* The orders list of the dashboard *)

\* C19 as stated: while the dashboard is shown, every order of the local
\* orders list has the selected menu's code as its menuCode, and the list is
\* empty when no menu, or a menu without a code, is selected.
C19_OrdersOfSelection ==
    Rendered(page) = "chefDashboard" =>
        IF HasCode(selectedMenu)
        THEN \A i \in DOMAIN orders : orders[i].menuCode = Get(selectedMenu).code
        ELSE orders = <<>>

====
